---- MODULE Spec2Model ----
(***************************************************************************)
(* SkyGuard: resolution of one PM2.5 reading for a geographic point.       *)
(*                                                                         *)
(* The repository holds two script variants of the same orchestration:     *)
(*   src/skyblue.py   get_pm25 with a station cap, a session rate-limit    *)
(*                    flag and a search log; no freshness filter and no    *)
(*                    secondary provider in get_pm25;                      *)
(*   src/skyblue2.py  get_pm25 with the 7-day freshness filter and the     *)
(*                    WAQI fallback; no cap and no rate-limit handling.    *)
(* A session runs one of the two scripts (variable variant).  One call of  *)
(* get_pm25 is a sequence of steps, one per provider request: the station  *)
(* lookup, one step per station of the probe loop, and (skyblue2) the      *)
(* request to the secondary provider.  Provider answers are the inputs.    *)
(* A second specification, SpecCalls, calls the helpers of the scripts     *)
(* (is_data_fresh, the selection of a sensor's latest entry, the station   *)
(* lookup) directly, each on arguments of its own.                         *)
(* SpecPage runs the results page of skyblue.py: searches memoized by      *)
(* last_query / last_result and the station queries of the map.            *)
(* SpecOverlap runs two calls of get_pm25 of skyblue.py on one session     *)
(* state, their steps interleaved.                                         *)
(*                                                                         *)
(* Python values: an Optional is a sequence of length 0 (None) or 1; a     *)
(* string that the code only compares or parses (an ISO timestamp) is a    *)
(* sequence of naturals compared lexicographically, as str is.             *)
(***************************************************************************)
EXTENDS Integers, Sequences, FiniteSets, TLC

VARIABLES
    variant,              \* "skyblue" | "skyblue2": the script of this session
    pc,                   \* position of get_pm25: "idle" | "probe" | "fallback" | "done"
    candidate_locations,  \* the stations the probe loop walks (skyblue: limited_locations)
    idx,                  \* 1-based position of the probe loop
    valid_measurements,   \* accumulator of get_pm25
    openaq_rate_limited,  \* st.session_state.openaq_rate_limited
    last_search_log,      \* st.session_state.last_search_log (entries by their kind)
    result,               \* the triple the last finished get_pm25 returned
    located,              \* history: what find_locations_by_coordinates returned
    lookup_failed,        \* history: the lookup request raised
    probe_log,            \* history: per walked station, what its probe came to
    raised,               \* history: the try body of get_pm25 raised
    waqi_queries,         \* history: requests sent to the secondary provider in this call
    waqi_measurements,    \* what get_waqi_by_coordinates returned in this call
    call,                 \* the last direct call of a helper: function, arguments, return
    lookup_requests,      \* history: requests sent to the locations endpoint in this call
    waqi_failed,          \* history: the request to the secondary provider raised
    flag_on_entry,        \* history: openaq_rate_limited when this call began
    page,                 \* the results page of skyblue.py: "idle" | "run" | "shown"
    coords_to_process,    \* st.session_state.coords_to_process
    last_query,           \* st.session_state.last_query
    last_result,          \* st.session_state.last_result
    shown,                \* the (pm25, dt_iso, source) the results page goes on with
    overlap               \* two get_pm25 calls of skyblue.py running on one session state

\* The variables of the results page.
page_vars == <<page, coords_to_process, last_query, last_result, shown>>

vars == <<variant, pc, candidate_locations, idx, valid_measurements,
          openaq_rate_limited, last_search_log, result, located, lookup_failed,
          probe_log, raised, waqi_queries, waqi_measurements, call,
          lookup_requests, waqi_failed, flag_on_entry, page_vars, overlap>>

----------------------------------------------------------------------------
(* Bounds of the model *)

\* Longest station list a lookup answer carries.
MaxLocations == 3
\* The source caps the probe loop at 10 stations; the model scales the cap so
\* that lists longer than the cap occur within MaxLocations.
MaxStationsToQuery == 2
\* Resolution of the clock: time units per day.
UnitsPerDay == 2

----------------------------------------------------------------------------
(* Python values *)

None == <<>>
Some(x) == <<x>>

\* str < str: lexicographic, a proper prefix is smaller.
RECURSIVE StrLess(_, _)
StrLess(a, b) ==
    IF b = <<>> THEN FALSE
    ELSE IF a = <<>> THEN TRUE
    ELSE IF Head(a) < Head(b) THEN TRUE
    ELSE IF Head(a) > Head(b) THEN FALSE
    ELSE StrLess(Tail(a), Tail(b))

\* The provider's UTC timestamp of instant t (in time units), "YYYY-MM-DDTHH:MM:SSZ":
\* fixed-width fields, here the day and the unit within the day.
Iso(t) == <<t \div UnitsPerDay, t % UnitsPerDay>>

\* A non-empty string that is no ISO timestamp; a letter sorts after every digit.
Malformed == <<99>>

WellFormed(s) == Len(s) = 2 /\ s[1] >= 0 /\ s[2] >= 0 /\ s[2] < UnitsPerDay

\* datetime.fromisoformat(...).astimezone(utc), as an instant in time units.
FromIso(s) == s[1] * UnitsPerDay + s[2]

DEFAULT_MAX_STATIONS_TO_QUERY == MaxStationsToQuery
MAX_AGE_DAYS == 7

\* datetime.now(timezone.utc) during the call: day MAX_AGE_DAYS + 2, unit 0.
NowUtc == (MAX_AGE_DAYS + 2) * UnitsPerDay

\* The age compared as an exact duration with max_age_days whole days.
is_data_fresh_ExactDuration(dt_iso, max_age_days) ==
    IF dt_iso = None THEN FALSE
    ELSE IF ~WellFormed(dt_iso) THEN FALSE
    ELSE (NowUtc - FromIso(dt_iso)) <= max_age_days * UnitsPerDay

\* The window closed one day earlier: age_days < max_age_days.
is_data_fresh_Strict(dt_iso, max_age_days) ==
    IF dt_iso = None THEN FALSE
    ELSE IF ~WellFormed(dt_iso) THEN FALSE
    ELSE ((NowUtc - FromIso(dt_iso)) \div UnitsPerDay) < max_age_days

\* A timestamp after now refused.
is_data_fresh_RejectsFuture(dt_iso, max_age_days) ==
    IF dt_iso = None THEN FALSE
    ELSE IF ~WellFormed(dt_iso) THEN FALSE
    ELSE /\ FromIso(dt_iso) <= NowUtc
         /\ ((NowUtc - FromIso(dt_iso)) \div UnitsPerDay) <= max_age_days

\* is_data_fresh of skyblue2.py; (now - dt).days is the floor of the age in days.
is_data_fresh(dt_iso, max_age_days) ==
    IF dt_iso = None THEN FALSE
    ELSE IF ~WellFormed(dt_iso) THEN FALSE
    ELSE ((NowUtc - FromIso(dt_iso)) \div UnitsPerDay) <= max_age_days

----------------------------------------------------------------------------
(* Station lookup *)

PM25(id) == [parameter |-> "pm25", id |-> id]
O3(id) == [parameter |-> "o3", id |-> id]

\* The locations a lookup answer is drawn from: two at the same distance, one whose
\* PM2.5 sensor is not listed first, one without a PM2.5 sensor, one whose PM2.5
\* sensor has a null id and which reports no distance.
LocationChoices ==
    { [name |-> "A", distance |-> Some(2), sensors |-> <<PM25(Some(1))>>],
      [name |-> "B", distance |-> Some(1), sensors |-> <<O3(Some(9)), PM25(Some(2))>>],
      [name |-> "C", distance |-> Some(2), sensors |-> <<PM25(Some(3))>>],
      [name |-> "D", distance |-> Some(1), sensors |-> <<O3(Some(4))>>],
      [name |-> "E", distance |-> None, sensors |-> <<PM25(None)>>] }

\* A lookup answer lists each location once.
LocationLists ==
    UNION { { s \in [1..n -> LocationChoices] :
                \A i, j \in 1..n : i # j => s[i] # s[j] } : n \in 0..MaxLocations }

HasPm25(loc) == \E k \in 1..Len(loc.sensors) : loc.sensors[k].parameter = "pm25"

\* key=lambda loc: loc.get('distance', float('inf'))
DistanceLess(a, b) ==
    /\ a.distance # None
    /\ (b.distance = None \/ a.distance[1] < b.distance[1])

\* A sort that is not stable: x goes before the first element whose key is not
\* smaller, so a later station passes an earlier one at the same distance.
RECURSIVE InsertByDistance_BeforeEqual(_, _)
InsertByDistance_BeforeEqual(s, x) ==
    IF s = <<>> THEN <<x>>
    ELSE IF ~DistanceLess(Head(s), x) THEN <<x>> \o s
    ELSE <<Head(s)>> \o InsertByDistance_BeforeEqual(Tail(s), x)

\* One step of sorted(): x goes before the first element whose key is greater.
RECURSIVE InsertByDistance(_, _)
InsertByDistance(s, x) ==
    IF s = <<>> THEN <<x>>
    ELSE IF DistanceLess(x, Head(s)) THEN <<x>> \o s
    ELSE <<Head(s)>> \o InsertByDistance(Tail(s), x)

RECURSIVE SortByDistance(_)
SortByDistance(s) ==
    IF s = <<>> THEN <<>>
    ELSE InsertByDistance(SortByDistance(SubSeq(s, 1, Len(s) - 1)), s[Len(s)])

\* The lookup returning every location of the answer, PM2.5 sensor or not.
find_locations_by_coordinates_Unfiltered(ok, locations) ==
    IF ~ok THEN <<>>
    ELSE SortByDistance(locations)

\* The lookup handing back what it has when the request failed.
find_locations_by_coordinates_Partial(ok, locations) ==
    SortByDistance(SelectSeq(locations, HasPm25))

\* find_locations_by_coordinates: the list returned for a lookup answer; a failed
\* request is caught inside and answered with the empty list.
find_locations_by_coordinates(ok, locations) ==
    IF ~ok THEN <<>>
    ELSE SortByDistance(SelectSeq(locations, HasPm25))

\* get_pm25_sensor_id_from_location: the id of the first PM2.5 sensor.
RECURSIVE FirstPm25Id(_)
FirstPm25Id(sensors) ==
    IF sensors = <<>> THEN None
    ELSE IF Head(sensors).parameter = "pm25" THEN Head(sensors).id
    ELSE FirstPm25Id(Tail(sensors))

get_pm25_sensor_id_from_location(loc) == FirstPm25Id(loc.sensors)

\* `not pm25_sensor_id`: None and 0 are both falsy.
Falsy(id) == id = None \/ id = Some(0)

----------------------------------------------------------------------------
(* Per-station latest reading *)

Stale == Iso(0)
Fresh1 == Iso(NowUtc - UnitsPerDay)
Fresh2 == Iso(NowUtc - 1)

Entry(v, utc) == [value |-> v, utc |-> utc]

\* The entries a measurements answer is drawn from: readings one day and one unit
\* old, two values at the same instant, a newest entry without a value, a reading
\* older than the freshness window, an entry without a timestamp and one whose
\* timestamp is no ISO string.
EntryChoices ==
    { Entry(Some(38), Fresh1), Entry(Some(20), Fresh2), Entry(Some(38), Fresh2),
      Entry(None, Fresh2), Entry(Some(20), Stale), Entry(Some(38), None),
      Entry(Some(20), Malformed) }

ResultLists ==
    {<<>>} \cup { <<e>> : e \in EntryChoices }
           \cup { <<e, f>> : e \in EntryChoices, f \in EntryChoices }

HasUtc(r) == r.utc # None

\* One step of sorted(..., reverse=True): x goes before the first element whose key
\* is smaller, so equal keys keep their order.
RECURSIVE InsertByUtcDesc(_, _)
InsertByUtcDesc(s, x) ==
    IF s = <<>> THEN <<x>>
    ELSE IF StrLess(Head(s).utc, x.utc) THEN <<x>> \o s
    ELSE <<Head(s)>> \o InsertByUtcDesc(Tail(s), x)

RECURSIVE SortByUtcDesc(_)
SortByUtcDesc(s) ==
    IF s = <<>> THEN <<>>
    ELSE InsertByUtcDesc(SortByUtcDesc(SubSeq(s, 1, Len(s) - 1)), s[Len(s)])

Reading(v, dt) == [v |-> v, dt |-> dt]
NoReading == Reading(None, None)

\* The provider's order trusted: the first listed entry with a timestamp.
LatestOfResults_FirstListed(results) ==
    IF results = <<>> THEN NoReading
    ELSE LET valid_results == SelectSeq(results, HasUtc)
         IN IF valid_results = <<>> THEN NoReading
            ELSE LET latest_measurement == valid_results[1]
                 IN IF latest_measurement.value # None
                    THEN Reading(latest_measurement.value, latest_measurement.utc)
                    ELSE NoReading

\* The entries sorted without the filter on the timestamp.
LatestOfResults_Unfiltered(results) ==
    IF results = <<>> THEN NoReading
    ELSE LET latest_measurement == SortByUtcDesc(results)[1]
         IN IF latest_measurement.value # None
            THEN Reading(latest_measurement.value, latest_measurement.utc)
            ELSE NoReading

\* The most recent entry that has a value, when the latest has none.
LatestOfResults_NextWithValue(results) ==
    IF results = <<>> THEN NoReading
    ELSE LET valid_results == SelectSeq(results, HasUtc)
             HasValue(r) == r.value # None
             valued == SelectSeq(SortByUtcDesc(valid_results), HasValue)
         IN IF valued = <<>> THEN NoReading
            ELSE Reading(valued[1].value, valued[1].utc)

\* get_latest_measurement_from_sensor after a successful request: the (value, dt)
\* it returns for the answer's results.
LatestOfResults(results) ==
    IF results = <<>> THEN NoReading
    ELSE LET valid_results == SelectSeq(results, HasUtc)
         IN IF valid_results = <<>> THEN NoReading
            ELSE LET latest_measurement == SortByUtcDesc(valid_results)[1]
                 IN IF latest_measurement.value # None
                    THEN Reading(latest_measurement.value, latest_measurement.utc)
                    ELSE NoReading

----------------------------------------------------------------------------
(* Selection among the accumulated measurements *)

Measurement(v, dt, src) == [value |-> v, dt_iso |-> dt, source |-> src]
Label(kind, name) == [kind |-> kind, name |-> name]

\* A sort that is not stable: x goes before the first element whose key is not
\* greater, so a later measurement passes an earlier one with the same timestamp.
RECURSIVE InsertByDtDesc_BeforeEqual(_, _)
InsertByDtDesc_BeforeEqual(s, x) ==
    IF s = <<>> THEN <<x>>
    ELSE IF ~StrLess(x.dt_iso, Head(s).dt_iso) THEN <<x>> \o s
    ELSE <<Head(s)>> \o InsertByDtDesc_BeforeEqual(Tail(s), x)

\* One step of sorted(valid_measurements, key=dt_iso, reverse=True).
RECURSIVE InsertByDtDesc(_, _)
InsertByDtDesc(s, x) ==
    IF s = <<>> THEN <<x>>
    ELSE IF StrLess(Head(s).dt_iso, x.dt_iso) THEN <<x>> \o s
    ELSE <<Head(s)>> \o InsertByDtDesc(Tail(s), x)

RECURSIVE SortByDtDesc(_)
SortByDtDesc(s) ==
    IF s = <<>> THEN <<>>
    ELSE InsertByDtDesc(SortByDtDesc(SubSeq(s, 1, Len(s) - 1)), s[Len(s)])

\* The selection taking the first accumulated entry (the nearest station).
most_recent_Nearest(measurements) == measurements[1]

\* most_recent = sorted(valid_measurements, key=lambda x: x['dt_iso'], reverse=True)[0]
most_recent(measurements) == SortByDtDesc(measurements)[1]

NoResult == Measurement(None, None, Label("Sin datos", ""))

----------------------------------------------------------------------------
(* Secondary provider (WAQI) *)

Iaqi(param, v) == [param |-> param, v |-> v]

WaqiAnswer(request_ok, status, has_data, aqi, iaqi, time_iso, city_name) ==
    [request_ok |-> request_ok, status |-> status, has_data |-> has_data,
     aqi |-> aqi, iaqi |-> iaqi, time_iso |-> time_iso, city_name |-> city_name]

\* The answers of the feed request: a failed request, a status other than ok, no
\* data, an AQI of '-', and feeds with and without a PM2.5 entry, with a timestamp
\* that does not parse, without a city name.
WaqiChoices ==
    { WaqiAnswer(FALSE, "ok", TRUE, "50", <<Iaqi("pm25", Some(20))>>, Fresh2, Some("W")),
      WaqiAnswer(TRUE, "error", TRUE, "50", <<Iaqi("pm25", Some(20))>>, Fresh2, Some("W")),
      WaqiAnswer(TRUE, "ok", FALSE, "50", <<Iaqi("pm25", Some(20))>>, Fresh2, Some("W")),
      WaqiAnswer(TRUE, "ok", TRUE, "-", <<Iaqi("pm25", Some(20))>>, Fresh2, Some("W")),
      WaqiAnswer(TRUE, "ok", TRUE, "50", <<Iaqi("pm25", Some(20))>>, Fresh2, Some("W")),
      WaqiAnswer(TRUE, "ok", TRUE, "50", <<Iaqi("o3", Some(7)), Iaqi("pm25", Some(38))>>, Stale, None),
      WaqiAnswer(TRUE, "ok", TRUE, "50", <<Iaqi("o3", Some(7))>>, Fresh2, Some("W")),
      WaqiAnswer(TRUE, "ok", TRUE, "50", <<Iaqi("dew", Some(3)), Iaqi("pm25", None)>>, Fresh2, Some("W")),
      WaqiAnswer(TRUE, "ok", TRUE, "50", <<Iaqi("pm25", Some(20))>>, Malformed, Some("W")) }

\* param_mapping: the feed's keys the adapter keeps (those the answers above use).
ParamMapped(param) == param \in {"pm25", "pm10", "o3", "no2", "so2", "co"}

WAQIMeasurement(location, parameter, value, date) ==
    [location |-> location, parameter |-> parameter, value |-> value, date |-> date]

Kept(e) == e.v # None /\ ParamMapped(e.param)

RECURSIVE WaqiMeasurementsOf(_, _)
WaqiMeasurementsOf(iaqi, a) ==
    IF iaqi = <<>> THEN <<>>
    ELSE (IF Kept(Head(iaqi))
          THEN <<WAQIMeasurement(IF a.city_name # None THEN a.city_name[1] ELSE "Location",
                                 Head(iaqi).param, Head(iaqi).v[1], FromIso(a.time_iso))>>
          ELSE <<>>) \o WaqiMeasurementsOf(Tail(iaqi), a)

\* The adapter reading the feed whatever its status.
get_waqi_by_coordinates_IgnoresStatus(a) ==
    IF ~a.request_ok THEN <<>>
    ELSE IF a.has_data /\ a.aqi # "missing" /\ a.aqi # "-"
    THEN IF (\E k \in 1..Len(a.iaqi) : Kept(a.iaqi[k])) /\ ~WellFormed(a.time_iso)
         THEN <<>>
         ELSE WaqiMeasurementsOf(a.iaqi, a)
    ELSE <<>>

\* get_waqi_by_coordinates: every exception (the request, fromisoformat of the
\* feed's time) is caught and answered with the empty list.
get_waqi_by_coordinates(a) ==
    IF ~a.request_ok THEN <<>>
    ELSE IF a.status = "ok" /\ a.has_data /\ a.aqi # "missing" /\ a.aqi # "-"
    THEN IF (\E k \in 1..Len(a.iaqi) : Kept(a.iaqi[k])) /\ ~WellFormed(a.time_iso)
         THEN <<>>
         ELSE WaqiMeasurementsOf(a.iaqi, a)
    ELSE <<>>

IsPm25(m) == m.parameter = "pm25"

\* The fallback returning the value without the measurement's date.
get_pm25_from_waqi_NoTimestamp(measurements) ==
    LET pm25s == SelectSeq(measurements, IsPm25)
    IN IF pm25s # <<>>
       THEN Measurement(Some(pm25s[1].value), None, Label("WAQI", pm25s[1].location))
       ELSE Measurement(None, None, Label("WAQI sin datos PM2.5", ""))

\* get_pm25_from_waqi: the first PM2.5 measurement of the adapter's list.
get_pm25_from_waqi(measurements) ==
    LET pm25s == SelectSeq(measurements, IsPm25)
    IN IF pm25s # <<>>
       THEN Measurement(Some(pm25s[1].value), Iso(pm25s[1].date),
                        Label("WAQI", pm25s[1].location))
       ELSE Measurement(None, None, Label("WAQI sin datos PM2.5", ""))

----------------------------------------------------------------------------
(* get_pm25 of skyblue.py *)

Min(a, b) == IF a <= b THEN a ELSE b

ProbeEntry(name, outcome, reading) ==
    [name |-> name, outcome |-> outcome, reading |-> reading]

\* The loop walking its list from the far end.
Station_FarthestFirst == candidate_locations[Len(candidate_locations) - idx + 1]

Station == candidate_locations[idx]

OpenAQ(loc) == Label("OpenAQ", loc.name)

\* The flag kept from the session instead of reset for the search.
FlagAtLoopStart_NotReset == openaq_rate_limited

\* Line 328: st.session_state.openaq_rate_limited = False, before the loop.
FlagAtLoopStart == FALSE

\* Lines 340-343: one notice after the loop if the flag is set.
RateLimitNotice(flag) == IF flag THEN <<"rate_limit">> ELSE <<>>

\* The end of one iteration of the loop of skyblue.py: the next station, or the
\* code after the loop (the single rate-limit notice, the selection).
SB_EndIteration(acc, flag, plog) ==
    /\ valid_measurements' = acc
    /\ openaq_rate_limited' = flag
    /\ probe_log' = plog
    /\ IF idx < Len(candidate_locations)
       THEN /\ pc' = "probe"
            /\ idx' = idx + 1
            /\ last_search_log' = Append(last_search_log, "step")
            /\ result' = result
       ELSE /\ pc' = "done"
            /\ idx' = idx + 1
            /\ LET log1 == Append(last_search_log, "step")
                           \o RateLimitNotice(flag)
               IN IF acc = <<>>
                  THEN /\ last_search_log' = Append(log1, "no_fresh")
                       /\ result' = Measurement(None, None,
                                        Label("Estaciones sin datos frescos", ""))
                  ELSE /\ last_search_log' = Append(log1, "selected")
                       /\ result' = most_recent(acc)
    /\ UNCHANGED <<variant, candidate_locations, located, lookup_failed, raised,
                   waqi_queries, waqi_measurements, call, lookup_requests, waqi_failed, flag_on_entry,
                   page_vars, overlap>>

\* The accumulator kept in the session from one call to the next.
SB_Locate_KeepsAccumulator(ok, locations) ==
    /\ variant = "skyblue"
    /\ pc \in {"idle", "done"}
    /\ LET cands == find_locations_by_coordinates(ok, locations)
           log0 == <<"search", IF ok THEN "found" ELSE "lookup_error">>
       IN /\ located' = cands
          /\ lookup_failed' = ~ok
          /\ IF cands = <<>>
             THEN /\ last_search_log' = Append(log0, "no_stations")
                  /\ result' = Measurement(None, None,
                                   Label("No se encontraron estaciones", ""))
                  /\ pc' = "done"
                  /\ candidate_locations' = <<>>
                  /\ UNCHANGED openaq_rate_limited
             ELSE /\ last_search_log' = log0
                  /\ result' = NoResult
                  /\ pc' = "probe"
                  /\ candidate_locations' =
                        SubSeq(cands, 1, Min(DEFAULT_MAX_STATIONS_TO_QUERY, Len(cands)))
                  /\ openaq_rate_limited' = FlagAtLoopStart
    /\ idx' = 1
    /\ valid_measurements' = valid_measurements
    /\ probe_log' = <<>>
    /\ raised' = FALSE
    /\ waqi_queries' = 0
    /\ waqi_measurements' = <<>>
    /\ lookup_requests' = 1
    /\ waqi_failed' = FALSE
    /\ flag_on_entry' = openaq_rate_limited
    /\ UNCHANGED <<variant, call, page_vars, overlap>>

\* Lines 315-328: the log reset, the lookup, the cap, the reset of the flag.
\* The lookup is one that reaches the provider (st.cache_data serves a repeated
\* lookup with the same arguments from its cache for 600 s).
SB_Locate(ok, locations) ==
    /\ variant = "skyblue"
    /\ pc \in {"idle", "done"}
    /\ LET cands == find_locations_by_coordinates(ok, locations)
           log0 == <<"search", IF ok THEN "found" ELSE "lookup_error">>
       IN /\ located' = cands
          /\ lookup_failed' = ~ok
          /\ IF cands = <<>>
             THEN /\ last_search_log' = Append(log0, "no_stations")
                  /\ result' = Measurement(None, None,
                                   Label("No se encontraron estaciones", ""))
                  /\ pc' = "done"
                  /\ candidate_locations' = <<>>
                  /\ UNCHANGED openaq_rate_limited
             ELSE /\ last_search_log' = log0
                  /\ result' = NoResult
                  /\ pc' = "probe"
                  /\ candidate_locations' =
                        SubSeq(cands, 1, Min(DEFAULT_MAX_STATIONS_TO_QUERY, Len(cands)))
                  /\ openaq_rate_limited' = FlagAtLoopStart
    /\ idx' = 1
    /\ valid_measurements' = <<>>
    /\ probe_log' = <<>>
    /\ raised' = FALSE
    /\ waqi_queries' = 0
    /\ waqi_measurements' = <<>>
    /\ lookup_requests' = 1
    /\ waqi_failed' = FALSE
    /\ flag_on_entry' = openaq_rate_limited
    /\ UNCHANGED <<variant, call, page_vars, overlap>>

\* Line 336: a station whose PM2.5 sensor id is falsy is passed over.
SB_ProbeSkip ==
    /\ variant = "skyblue"
    /\ pc = "probe"
    /\ Falsy(get_pm25_sensor_id_from_location(Station))
    /\ SB_EndIteration(valid_measurements, openaq_rate_limited,
                       Append(probe_log, ProbeEntry(Station.name, "skipped", NoReading)))

\* Lines 337-338 with a request that succeeded (lines 305-313).
SB_ProbeAnswer(results) ==
    /\ variant = "skyblue"
    /\ pc = "probe"
    /\ ~Falsy(get_pm25_sensor_id_from_location(Station))
    /\ LET r == LatestOfResults(results)
       IN IF r.v # None /\ r.dt # None
          THEN SB_EndIteration(
                   Append(valid_measurements, Measurement(r.v, r.dt, OpenAQ(Station))),
                   openaq_rate_limited,
                   Append(probe_log, ProbeEntry(Station.name, "accumulated", r)))
          ELSE SB_EndIteration(valid_measurements, openaq_rate_limited,
                   Append(probe_log, ProbeEntry(Station.name, "no_reading", r)))

\* A station answered 429 asked again: the loop stays on it.
SB_ProbeRateLimited_Retry ==
    /\ variant = "skyblue"
    /\ pc = "probe"
    /\ ~Falsy(get_pm25_sensor_id_from_location(Station))
    /\ openaq_rate_limited' = TRUE
    /\ probe_log' = Append(probe_log, ProbeEntry(Station.name, "rate_limited", NoReading))
    /\ UNCHANGED <<variant, pc, candidate_locations, idx, valid_measurements,
                   last_search_log, result, located, lookup_failed, raised,
                   waqi_queries, waqi_measurements, call, lookup_requests,
                   waqi_failed, flag_on_entry, page_vars, overlap>>

\* Lines 298-303: the request is answered 429; the flag is set, the station gives
\* (None, None) and the loop goes on.
SB_ProbeRateLimited ==
    /\ variant = "skyblue"
    /\ pc = "probe"
    /\ ~Falsy(get_pm25_sensor_id_from_location(Station))
    /\ SB_EndIteration(valid_measurements, TRUE,
                       Append(probe_log, ProbeEntry(Station.name, "rate_limited", NoReading)))

\* The exception of a station query leaving get_pm25.
SB_ProbeRaises_Propagates ==
    /\ variant = "skyblue"
    /\ pc = "probe"
    /\ ~Falsy(get_pm25_sensor_id_from_location(Station))
    /\ pc' = "propagated"
    /\ raised' = TRUE
    /\ probe_log' = Append(probe_log, ProbeEntry(Station.name, "failed", NoReading))
    /\ UNCHANGED <<variant, candidate_locations, idx, valid_measurements,
                   openaq_rate_limited, last_search_log, result, located,
                   lookup_failed, waqi_queries, waqi_measurements, call,
                   lookup_requests, waqi_failed, flag_on_entry, page_vars, overlap>>

\* A failed request contained to its station: the loop goes on.
SB_ProbeRaises_Contained ==
    /\ variant = "skyblue"
    /\ pc = "probe"
    /\ ~Falsy(get_pm25_sensor_id_from_location(Station))
    /\ SB_EndIteration(valid_measurements, openaq_rate_limited,
                       Append(probe_log, ProbeEntry(Station.name, "failed", NoReading)))

\* Line 304 and lines 354-356: any other failure of the request is raised again and
\* caught by the handler of get_pm25.
SB_ProbeRaises ==
    /\ variant = "skyblue"
    /\ pc = "probe"
    /\ ~Falsy(get_pm25_sensor_id_from_location(Station))
    /\ pc' = "done"
    /\ raised' = TRUE
    /\ result' = Measurement(None, None, Label("Error en la aplicacion", ""))
    /\ last_search_log' = Append(last_search_log, "step")
    /\ probe_log' = Append(probe_log, ProbeEntry(Station.name, "failed", NoReading))
    /\ UNCHANGED <<variant, candidate_locations, idx, valid_measurements,
                   openaq_rate_limited, located, lookup_failed, waqi_queries,
                   waqi_measurements, call, lookup_requests, waqi_failed,
                   flag_on_entry, page_vars, overlap>>

----------------------------------------------------------------------------
(* get_pm25 of skyblue2.py *)

\* The code after the loop going to the fallback whatever was accumulated.
SB2_AfterLoop_AlwaysFallback(acc) == "fallback"

\* Lines 230-244: after the loop, the fallback if nothing was accumulated, else
\* the selection.
SB2_AfterLoop(acc) == IF acc = <<>> THEN "fallback" ELSE "done"

\* The end of one iteration of the loop of skyblue2.py: the next station, or the
\* code after the loop (the fallback when nothing was accumulated, the selection).
SB2_EndIteration(acc, plog) ==
    /\ valid_measurements' = acc
    /\ probe_log' = plog
    /\ idx' = idx + 1
    /\ IF idx < Len(candidate_locations)
       THEN pc' = "probe" /\ result' = result
       ELSE /\ pc' = SB2_AfterLoop(acc)
            /\ result' = IF SB2_AfterLoop(acc) = "done" THEN most_recent(acc) ELSE result
    /\ UNCHANGED <<variant, candidate_locations, openaq_rate_limited, last_search_log,
                   located, lookup_failed, raised, waqi_queries, waqi_measurements,
                   call, lookup_requests, waqi_failed, flag_on_entry, page_vars,
                   overlap>>

\* Lines 194-201: the lookup; an empty list goes to the fallback.
SB2_Locate(ok, locations) ==
    /\ variant = "skyblue2"
    /\ pc \in {"idle", "done"}
    /\ LET cands == find_locations_by_coordinates(ok, locations)
       IN /\ located' = cands
          /\ lookup_failed' = ~ok
          /\ candidate_locations' = cands
          /\ pc' = IF cands = <<>> THEN "fallback" ELSE "probe"
    /\ result' = NoResult
    /\ idx' = 1
    /\ valid_measurements' = <<>>
    /\ probe_log' = <<>>
    /\ raised' = FALSE
    /\ waqi_queries' = 0
    /\ waqi_measurements' = <<>>
    /\ lookup_requests' = 1
    /\ waqi_failed' = FALSE
    /\ flag_on_entry' = openaq_rate_limited
    /\ UNCHANGED <<variant, openaq_rate_limited, last_search_log, call, page_vars,
                   overlap>>

\* Lines 210-213.
SB2_ProbeSkip ==
    /\ variant = "skyblue2"
    /\ pc = "probe"
    /\ Falsy(get_pm25_sensor_id_from_location(Station))
    /\ SB2_EndIteration(valid_measurements,
                        Append(probe_log, ProbeEntry(Station.name, "skipped", NoReading)))

\* Lines 215-228 with a request that succeeded (lines 167-186).
SB2_ProbeAnswer(results) ==
    /\ variant = "skyblue2"
    /\ pc = "probe"
    /\ ~Falsy(get_pm25_sensor_id_from_location(Station))
    /\ LET r == LatestOfResults(results)
       IN IF r.v # None /\ r.dt # None
          THEN IF is_data_fresh(r.dt, MAX_AGE_DAYS)
               THEN SB2_EndIteration(
                        Append(valid_measurements, Measurement(r.v, r.dt, OpenAQ(Station))),
                        Append(probe_log, ProbeEntry(Station.name, "accumulated", r)))
               ELSE SB2_EndIteration(valid_measurements,
                        Append(probe_log, ProbeEntry(Station.name, "not_fresh", r)))
          ELSE SB2_EndIteration(valid_measurements,
                   Append(probe_log, ProbeEntry(Station.name, "no_reading", r)))

\* Lines 108-109 and 246-253: raise_for_status or the transport raises (a 429
\* answer as any other failure); the handlers of get_pm25 go to the fallback.
SB2_ProbeRaises(failure) ==
    /\ variant = "skyblue2"
    /\ pc = "probe"
    /\ ~Falsy(get_pm25_sensor_id_from_location(Station))
    /\ pc' = "fallback"
    /\ raised' = TRUE
    /\ probe_log' = Append(probe_log, ProbeEntry(Station.name, failure, NoReading))
    /\ UNCHANGED <<variant, candidate_locations, idx, valid_measurements,
                   openaq_rate_limited, last_search_log, result, located,
                   lookup_failed, waqi_queries, waqi_measurements, call,
                   lookup_requests, waqi_failed, flag_on_entry, page_vars, overlap>>

\* Lines 73-100: the request to the secondary provider and what is made of it.
SB2_Fallback(answer) ==
    /\ variant = "skyblue2"
    /\ pc = "fallback"
    /\ waqi_queries' = waqi_queries + 1
    /\ waqi_measurements' = get_waqi_by_coordinates(answer)
    /\ result' = get_pm25_from_waqi(get_waqi_by_coordinates(answer))
    /\ pc' = "done"
    /\ waqi_failed' = ~answer.request_ok
    /\ UNCHANGED <<variant, candidate_locations, idx, valid_measurements,
                   openaq_rate_limited, last_search_log, located, lookup_failed,
                   probe_log, raised, call, lookup_requests, flag_on_entry,
                   page_vars, overlap>>

----------------------------------------------------------------------------
(* The session *)

\* No helper has been called directly.
NoCall == [fn |-> "none"]

\* No second call runs on the session state: the locals of a call not begun.
NoOverlap ==
    [pc |-> "idle", candidate_locations |-> <<>>, idx |-> 1,
     valid_measurements |-> <<>>, result |-> NoResult]

Init ==
    /\ variant \in {"skyblue", "skyblue2"}
    /\ pc = "idle"
    /\ candidate_locations = <<>>
    /\ idx = 1
    /\ valid_measurements = <<>>
    /\ openaq_rate_limited = FALSE
    /\ last_search_log = <<>>
    /\ result = NoResult
    /\ located = <<>>
    /\ lookup_failed = FALSE
    /\ probe_log = <<>>
    /\ raised = FALSE
    /\ waqi_queries = 0
    /\ waqi_measurements = <<>>
    /\ call = NoCall
    /\ lookup_requests = 0
    /\ waqi_failed = FALSE
    /\ flag_on_entry = FALSE
    /\ page = "idle"
    /\ coords_to_process = None
    /\ last_query = None
    /\ last_result = NoResult
    /\ shown = NoResult
    /\ overlap = NoOverlap

Next ==
    \/ \E ok \in BOOLEAN, locations \in LocationLists : SB_Locate(ok, locations)
    \/ SB_ProbeSkip
    \/ \E results \in ResultLists : SB_ProbeAnswer(results)
    \/ SB_ProbeRateLimited
    \/ SB_ProbeRaises
    \/ \E ok \in BOOLEAN, locations \in LocationLists : SB2_Locate(ok, locations)
    \/ SB2_ProbeSkip
    \/ \E results \in ResultLists : SB2_ProbeAnswer(results)
    \/ \E failure \in {"rate_limited", "failed"} : SB2_ProbeRaises(failure)
    \/ \E answer \in WaqiChoices : SB2_Fallback(answer)

Spec == Init /\ [][Next]_vars

----------------------------------------------------------------------------
(* The helpers called directly, each on inputs of its own *)

\* The state of the session, which a direct call of a helper leaves alone (the
\* helpers below read the clock and their arguments only).
session == <<variant, pc, candidate_locations, idx, valid_measurements,
             openaq_rate_limited, last_search_log, result, located, lookup_failed,
             probe_log, raised, waqi_queries, waqi_measurements, lookup_requests,
             waqi_failed, flag_on_entry, page_vars, overlap>>

\* The dt_iso arguments: every instant from day 0 to one day after now, no
\* timestamp (None or the empty string), and a string that is no timestamp.
TimestampChoices ==
    { Iso(t) : t \in 0..(NowUtc + UnitsPerDay) } \cup {None, Malformed}

\* The max_age_days arguments.
MaxAgeChoices == 0..(MAX_AGE_DAYS + 1)

\* The results arguments: the measurement answers of the probe loop and those of
\* three entries.
CallResultLists ==
    ResultLists \cup { <<e, f, g>> : e \in EntryChoices, f \in EntryChoices,
                                     g \in EntryChoices }

\* is_data_fresh is a function of skyblue2.py only.
Call_is_data_fresh(dt_iso, max_age_days) ==
    /\ variant = "skyblue2"
    /\ call' = [fn |-> "is_data_fresh", dt_iso |-> dt_iso,
                max_age_days |-> max_age_days,
                ret |-> is_data_fresh(dt_iso, max_age_days)]
    /\ UNCHANGED session

\* The part of get_latest_measurement_from_sensor after the request succeeded.
Call_get_latest_measurement_from_sensor(results) ==
    /\ call' = [fn |-> "get_latest_measurement_from_sensor", results |-> results,
                ret |-> LatestOfResults(results)]
    /\ UNCHANGED session

Call_find_locations_by_coordinates(ok, locations) ==
    /\ call' = [fn |-> "find_locations_by_coordinates", ok |-> ok,
                locations |-> locations,
                ret |-> find_locations_by_coordinates(ok, locations)]
    /\ UNCHANGED session

\* The feed answers of a direct call: every combination of a request that fails
\* or not, a status, data present or not and an AQI that is a number, '-' or
\* absent, over feeds with and without a PM2.5 entry.
CallWaqiChoices ==
    WaqiChoices \cup
    { WaqiAnswer(ok, status, has_data, aqi, iaqi, Fresh2, Some("W")) :
        ok \in BOOLEAN, status \in {"ok", "error"}, has_data \in BOOLEAN,
        aqi \in {"50", "-", "missing"},
        iaqi \in { <<Iaqi("pm25", Some(20))>>,
                   <<Iaqi("pm10", Some(7)), Iaqi("pm25", Some(38)), Iaqi("o3", Some(3))>> } }

\* get_waqi_by_coordinates and what get_pm25_from_waqi makes of its list.
Call_get_waqi_by_coordinates(answer) ==
    /\ variant = "skyblue2"
    /\ call' = [fn |-> "get_waqi_by_coordinates", answer |-> answer,
                ret |-> get_waqi_by_coordinates(answer),
                fallback |-> get_pm25_from_waqi(get_waqi_by_coordinates(answer))]
    /\ UNCHANGED session

NextCalls ==
    \/ \E dt_iso \in TimestampChoices, max_age_days \in MaxAgeChoices :
           Call_is_data_fresh(dt_iso, max_age_days)
    \/ \E results \in CallResultLists : Call_get_latest_measurement_from_sensor(results)
    \/ \E ok \in BOOLEAN, locations \in LocationLists :
           Call_find_locations_by_coordinates(ok, locations)
    \/ \E answer \in CallWaqiChoices : Call_get_waqi_by_coordinates(answer)

SpecCalls == Init /\ [][NextCalls]_vars

----------------------------------------------------------------------------
(* The results page of skyblue.py: the memoized search and the map *)

\* What coords_to_process and the radius slider hold for a search: latitude and
\* longitude in units of 0.00001 degree, the radius in km.
Query(lat, lon, radius) == [lat |-> lat, lon |-> lon, radius |-> radius]

\* Three points, two of which round to the same 4 decimals, and two radii.
QueryChoices ==
    { Query(12, 0, 15), Query(14, 0, 15), Query(18, 0, 15), Query(12, 0, 20) }

\* round(float(x), 4), in units of 0.0001 degree (no point above lies halfway).
Round4(x) == (x + 5) \div 10

\* current_query = (round(float(lat), 4), round(float(lon), 4), int(radius_input))
current_query(q) == <<Round4(q.lat), Round4(q.lon), q.radius>>

\* The lookup answers of the searches of the page.
PageLocationLists ==
    { s \in LocationLists :
        /\ Len(s) <= 2
        /\ \A k \in 1..Len(s) : s[k].name \in {"A", "B", "E"} }

\* The measurement answers of the searches of the page.
PageResultLists ==
    { <<>>, <<Entry(Some(38), Fresh1)>>, <<Entry(Some(20), Fresh2)>> }

\* The state of get_pm25 and of the session it writes.
get_pm25_state ==
    <<candidate_locations, idx, valid_measurements, openaq_rate_limited,
      last_search_log, result, located, lookup_failed, probe_log, raised,
      waqi_queries, waqi_measurements, lookup_requests, waqi_failed, flag_on_entry>>

\* Lines 383/399 and 498-500: a search is submitted, or the script reruns on a
\* widget, and the results page starts with (None, None, "Sin datos").
Page_Submit(q) ==
    /\ variant = "skyblue"
    /\ page \in {"idle", "shown"}
    /\ pc \in {"idle", "done"}
    /\ coords_to_process' = Some(q)
    /\ page' = "run"
    /\ pc' = "idle"
    /\ shown' = NoResult
    /\ UNCHANGED <<variant, get_pm25_state, last_query, last_result, call, overlap>>

\* Lines 506 and 511-528: the key equals last_query; last_result is reused.
Page_Hit ==
    /\ variant = "skyblue"
    /\ page = "run"
    /\ pc = "idle"
    /\ last_query = Some(current_query(coords_to_process[1]))
    /\ shown' = last_result
    /\ page' = "shown"
    /\ UNCHANGED <<variant, pc, get_pm25_state, coords_to_process, last_query,
                   last_result, call, overlap>>

\* Lines 506-508: the key differs from last_query; get_pm25 is called.
Page_Search(ok, locations) ==
    /\ page = "run"
    /\ pc = "idle"
    /\ last_query # Some(current_query(coords_to_process[1]))
    /\ SB_Locate(ok, locations)

\* Only a result with a value stored.
Page_Store_SkipsNoData ==
    /\ variant = "skyblue"
    /\ page = "run"
    /\ pc = "done"
    /\ last_query' = IF result.value # None
                     THEN Some(current_query(coords_to_process[1])) ELSE last_query
    /\ last_result' = IF result.value # None THEN result ELSE last_result
    /\ shown' = result
    /\ page' = "shown"
    /\ UNCHANGED <<variant, pc, get_pm25_state, coords_to_process, call, overlap>>

\* Lines 509-510: get_pm25 has returned; the key and the triple are stored.
Page_Store ==
    /\ variant = "skyblue"
    /\ page = "run"
    /\ pc = "done"
    /\ last_query' = Some(current_query(coords_to_process[1]))
    /\ last_result' = result
    /\ shown' = result
    /\ page' = "shown"
    /\ UNCHANGED <<variant, pc, get_pm25_state, coords_to_process, call, overlap>>

\* Lines 573-577 and 362-366, 298-303: the map asks the stations of its own lookup
\* for their reading; a query answered 429 sets the flag of the session (any other
\* answer leaves the session state as it is).
Page_MapRateLimited ==
    /\ variant = "skyblue"
    /\ page = "shown"
    /\ ~openaq_rate_limited
    /\ openaq_rate_limited' = TRUE
    /\ UNCHANGED <<variant, pc, candidate_locations, idx, valid_measurements,
                   last_search_log, result, located, lookup_failed, probe_log,
                   raised, waqi_queries, waqi_measurements, call, lookup_requests,
                   waqi_failed, flag_on_entry, page_vars, overlap>>

InitPage == Init /\ variant = "skyblue"

NextPage ==
    \/ \E q \in QueryChoices : Page_Submit(q)
    \/ Page_Hit
    \/ \E ok \in BOOLEAN, locations \in PageLocationLists : Page_Search(ok, locations)
    \/ SB_ProbeSkip
    \/ \E results \in PageResultLists : SB_ProbeAnswer(results)
    \/ SB_ProbeRateLimited
    \/ SB_ProbeRaises
    \/ Page_Store
    \/ Page_MapRateLimited

SpecPage == InitPage /\ [][NextPage]_vars

----------------------------------------------------------------------------
(* Two calls of get_pm25 of skyblue.py on one session state *)

\* The first call is the one of the variables above; `overlap` holds the locals of
\* a second call that runs on the same st.session_state, whose flag and log are
\* the variables openaq_rate_limited and last_search_log.  A step of either call
\* is one provider request and the code up to the next one.
first_call == <<pc, candidate_locations, idx, valid_measurements, result, located,
                lookup_failed, probe_log, raised, waqi_queries, waqi_measurements,
                lookup_requests, waqi_failed, flag_on_entry>>

OV_Station == overlap.candidate_locations[overlap.idx]

\* The end of one iteration of the loop in the second call (lines 329-353).
OV_EndIteration(acc, flag) ==
    /\ openaq_rate_limited' = flag
    /\ IF overlap.idx < Len(overlap.candidate_locations)
       THEN /\ overlap' = [overlap EXCEPT !.idx = @ + 1, !.valid_measurements = acc]
            /\ last_search_log' = Append(last_search_log, "step")
       ELSE LET log1 == Append(last_search_log, "step") \o RateLimitNotice(flag)
            IN IF acc = <<>>
               THEN /\ last_search_log' = Append(log1, "no_fresh")
                    /\ overlap' = [overlap EXCEPT
                           !.pc = "done", !.idx = @ + 1, !.valid_measurements = acc,
                           !.result = Measurement(None, None,
                                          Label("Estaciones sin datos frescos", ""))]
               ELSE /\ last_search_log' = Append(log1, "selected")
                    /\ overlap' = [overlap EXCEPT
                           !.pc = "done", !.idx = @ + 1, !.valid_measurements = acc,
                           !.result = most_recent(acc)]
    /\ UNCHANGED <<variant, first_call, call, page_vars>>

\* Lines 315-328 in the second call.
OV_Locate(ok, locations) ==
    /\ variant = "skyblue"
    /\ overlap.pc \in {"idle", "done"}
    /\ LET cands == find_locations_by_coordinates(ok, locations)
           log0 == <<"search", IF ok THEN "found" ELSE "lookup_error">>
       IN IF cands = <<>>
          THEN /\ last_search_log' = Append(log0, "no_stations")
               /\ overlap' = [NoOverlap EXCEPT
                      !.pc = "done",
                      !.result = Measurement(None, None,
                                     Label("No se encontraron estaciones", ""))]
               /\ UNCHANGED openaq_rate_limited
          ELSE /\ last_search_log' = log0
               /\ overlap' = [NoOverlap EXCEPT
                      !.pc = "probe",
                      !.candidate_locations =
                          SubSeq(cands, 1, Min(DEFAULT_MAX_STATIONS_TO_QUERY, Len(cands)))]
               /\ openaq_rate_limited' = FlagAtLoopStart
    /\ UNCHANGED <<variant, first_call, call, page_vars>>

\* Line 336 in the second call.
OV_ProbeSkip ==
    /\ variant = "skyblue"
    /\ overlap.pc = "probe"
    /\ Falsy(get_pm25_sensor_id_from_location(OV_Station))
    /\ OV_EndIteration(overlap.valid_measurements, openaq_rate_limited)

\* Lines 337-338 in the second call, the request having succeeded.
OV_ProbeAnswer(results) ==
    /\ variant = "skyblue"
    /\ overlap.pc = "probe"
    /\ ~Falsy(get_pm25_sensor_id_from_location(OV_Station))
    /\ LET r == LatestOfResults(results)
       IN IF r.v # None /\ r.dt # None
          THEN OV_EndIteration(
                   Append(overlap.valid_measurements,
                          Measurement(r.v, r.dt, OpenAQ(OV_Station))),
                   openaq_rate_limited)
          ELSE OV_EndIteration(overlap.valid_measurements, openaq_rate_limited)

\* Lines 298-303 in the second call: the answer is 429 and the flag is set.
OV_ProbeRateLimited ==
    /\ variant = "skyblue"
    /\ overlap.pc = "probe"
    /\ ~Falsy(get_pm25_sensor_id_from_location(OV_Station))
    /\ OV_EndIteration(overlap.valid_measurements, TRUE)

\* Lines 304 and 354-356 in the second call.
OV_ProbeRaises ==
    /\ variant = "skyblue"
    /\ overlap.pc = "probe"
    /\ ~Falsy(get_pm25_sensor_id_from_location(OV_Station))
    /\ overlap' = [overlap EXCEPT
           !.pc = "done",
           !.result = Measurement(None, None, Label("Error en la aplicacion", ""))]
    /\ last_search_log' = Append(last_search_log, "step")
    /\ UNCHANGED <<variant, first_call, openaq_rate_limited, call, page_vars>>

InitOverlap == Init /\ variant = "skyblue"

NextOverlap ==
    \/ \E ok \in BOOLEAN, locations \in PageLocationLists : SB_Locate(ok, locations)
    \/ SB_ProbeSkip
    \/ \E results \in PageResultLists : SB_ProbeAnswer(results)
    \/ SB_ProbeRateLimited
    \/ SB_ProbeRaises
    \/ \E ok \in BOOLEAN, locations \in PageLocationLists : OV_Locate(ok, locations)
    \/ OV_ProbeSkip
    \/ \E results \in PageResultLists : OV_ProbeAnswer(results)
    \/ OV_ProbeRateLimited
    \/ OV_ProbeRaises

SpecOverlap == InitOverlap /\ [][NextOverlap]_vars

----------------------------------------------------------------------------
(* Properties *)

Walked == 1..Len(probe_log)
Accumulated == 1..Len(valid_measurements)

\* Station k of the walk gave a reading that is_data_fresh accepts.
YieldedFresh(k) ==
    /\ probe_log[k].reading.v # None
    /\ is_data_fresh(probe_log[k].reading.dt, MAX_AGE_DAYS)

\* The probe loop of the call walked every station of its list and none raised.
LoopCompleted ==
    /\ pc \in {"done", "fallback"}
    /\ located # <<>>
    /\ ~raised
    /\ Len(probe_log) = Len(candidate_locations)

RateLimitedCount == Cardinality({k \in Walked : probe_log[k].outcome = "rate_limited"})
NoticeCount ==
    Cardinality({k \in 1..Len(last_search_log) : last_search_log[k] = "rate_limit"})

FromWaqi == result = get_pm25_from_waqi(waqi_measurements)

C2_AsStated ==
    /\ \A k \in Accumulated : is_data_fresh(valid_measurements[k].dt_iso, MAX_AGE_DAYS)
    /\ (pc = "done" /\ result.source.kind = "OpenAQ")
           => is_data_fresh(result.dt_iso, MAX_AGE_DAYS)

\* C3 as stated: a finished call whose lookup returned no station, whose loop
\* accumulated nothing, or whose try body raised, has queried the secondary provider.
C3_AsStated ==
    (pc = "done" /\ (located = <<>> \/ valid_measurements = <<>> \/ raised))
        => waqi_queries >= 1

C5_AsStated ==
    (pc = "done" /\ located = <<>>) =>
        /\ waqi_queries = 1
        /\ \A k \in 1..Len(waqi_measurements) :
               waqi_measurements[k].parameter = "pm25" =>
                   /\ result.value # None
                   /\ result.source.kind = "WAQI"
                   /\ \E j \in 1..Len(waqi_measurements) :
                          /\ waqi_measurements[j].parameter = "pm25"
                          /\ result.value = Some(waqi_measurements[j].value)
                          /\ result.source.name = waqi_measurements[j].location

\* The outcome of the spec's tagged result that a returned label stands for.
OutcomeOf(r) ==
    IF r.value # None THEN "Resolved"
    ELSE IF r.source.kind = "No se encontraron estaciones" THEN "NoStations"
    ELSE IF r.source.kind = "Estaciones sin datos frescos" THEN "NoFreshData"
    ELSE IF r.source.kind = "Error en la aplicacion" THEN "ProviderError"
    ELSE "NoData"

\* C6 as stated: after a fallback without a PM2.5 value the outcome is NoFreshData
\* when the lookup returned stations and NoStations when it returned none.
C6_AsStated ==
    (pc = "done" /\ waqi_queries >= 1 /\ result.value = None) =>
        OutcomeOf(result) = (IF located # <<>> THEN "NoFreshData" ELSE "NoStations")

\* C7 as stated, for calls in which no station query failed otherwise: after a
\* station answered 429 every station of the list is still walked, and the call
\* returns the most recent of the readings the other stations accumulated.
C7_AsStated ==
    (/\ pc \in {"done", "fallback"}
     /\ \E k \in Walked : probe_log[k].outcome = "rate_limited"
     /\ \A k \in Walked : probe_log[k].outcome # "failed") =>
        /\ Len(probe_log) = Len(candidate_locations)
        /\ valid_measurements # <<>> => pc = "done" /\ result = most_recent(valid_measurements)

----------------------------------------------------------------------------
(* Properties of the cap, the freshness filter and the helpers *)

\* C11 as stated: a call walks at most DEFAULT_MAX_STATIONS_TO_QUERY stations, and
\* the stations it walks are the first entries, in order, of the distance-ordered
\* list the lookup returned.
C11_AsStated ==
    /\ Len(probe_log) <= DEFAULT_MAX_STATIONS_TO_QUERY
    /\ Len(candidate_locations) <= DEFAULT_MAX_STATIONS_TO_QUERY
    /\ \A k \in Walked : k <= Len(located) /\ probe_log[k].name = located[k].name

IsFreshCall == call.fn = "is_data_fresh"

\* The age, in time units, of the timestamp of the last is_data_fresh call.
AgeOfCall == NowUtc - FromIso(call.dt_iso)

\* The number of whole days in a duration: the d with d days <= age < d + 1 days.
WholeDays(age) ==
    CHOOSE d \in (0 - 2)..(MAX_AGE_DAYS + 3) :
        d * UnitsPerDay <= age /\ age < (d + 1) * UnitsPerDay

\* C12: for a well-formed timestamp and any max_age_days, is_data_fresh is true
\* exactly when the number of whole elapsed days, the floor of now - dt in days,
\* is at most max_age_days.
C12_FloorOfElapsedDays ==
    (IsFreshCall /\ WellFormed(call.dt_iso)) =>
        (call.ret <=> WholeDays(AgeOfCall) <= call.max_age_days)

\* A reading one time unit short of 7 days old passes a 6-day window.
C12_Witness ==
    /\ IsFreshCall
    /\ WellFormed(call.dt_iso)
    /\ AgeOfCall = MAX_AGE_DAYS * UnitsPerDay - 1
    /\ call.max_age_days = MAX_AGE_DAYS - 1
    /\ call.ret

\* C13 as stated: with max_age_days = 7 a reading exactly 7 days old is fresh and a
\* reading 7 days and one time unit old is not.
C13_AsStated ==
    (IsFreshCall /\ WellFormed(call.dt_iso) /\ call.max_age_days = MAX_AGE_DAYS) =>
        /\ AgeOfCall = MAX_AGE_DAYS * UnitsPerDay => call.ret
        /\ AgeOfCall = MAX_AGE_DAYS * UnitsPerDay + 1 => ~call.ret

\* C13 amended: with max_age_days = 7 a reading exactly 7 days old is fresh, and so
\* is every reading less than 8 days old (7 days and one time unit, 8 days less one
\* time unit); a reading exactly 8 days old is the first that is not.
C13_BoundaryAtEighthDay ==
    (IsFreshCall /\ WellFormed(call.dt_iso) /\ call.max_age_days = MAX_AGE_DAYS) =>
        /\ AgeOfCall = MAX_AGE_DAYS * UnitsPerDay => call.ret
        /\ AgeOfCall = MAX_AGE_DAYS * UnitsPerDay + 1 => call.ret
        /\ AgeOfCall = (MAX_AGE_DAYS + 1) * UnitsPerDay - 1 => call.ret
        /\ AgeOfCall < (MAX_AGE_DAYS + 1) * UnitsPerDay => call.ret
        /\ AgeOfCall >= (MAX_AGE_DAYS + 1) * UnitsPerDay => ~call.ret

\* A reading 7 days and one time unit old found fresh for 7 days.
C13_Witness ==
    /\ IsFreshCall
    /\ WellFormed(call.dt_iso)
    /\ call.max_age_days = MAX_AGE_DAYS
    /\ AgeOfCall = MAX_AGE_DAYS * UnitsPerDay + 1
    /\ call.ret

\* C14 as stated: a reading whose timestamp is missing or is no ISO timestamp is
\* never accumulated and never returned; its station contributes no measurement.
C14_AsStated ==
    /\ \A k \in Accumulated : WellFormed(valid_measurements[k].dt_iso)
    /\ \A k \in Walked :
           ~WellFormed(probe_log[k].reading.dt) => probe_log[k].outcome # "accumulated"
    /\ (pc = "done" /\ result.source.kind = "OpenAQ") => WellFormed(result.dt_iso)

IsLatestCall == call.fn = "get_latest_measurement_from_sensor"

\* The orders in which a provider can list the entries of an answer.
PermutationsOf(s) ==
    { [i \in 1..Len(s) |-> s[p[i]]] : p \in Permutations(1..Len(s)) }

\* The positions of the entries that carry a timestamp, and of those among them
\* whose timestamp no other exceeds.
UtcCarriers(results) == { k \in 1..Len(results) : HasUtc(results[k]) }
MaxUtcCarriers(results) ==
    { k \in UtcCarriers(results) :
        \A j \in UtcCarriers(results) : ~StrLess(results[k].utc, results[j].utc) }

FirstOf(S) == CHOOSE k \in S : \A j \in S : k <= j

\* What the query returns for the entry it selected.
ReadingOfEntry(e) == IF e.value # None THEN Reading(e.value, e.utc) ELSE NoReading

\* C15 as stated: the latest-reading query returns an entry with the maximum
\* timestamp among those that carry one, and returns the same (value, timestamp)
\* for every order in which the provider lists the entries.
C15_AsStated ==
    IsLatestCall =>
        /\ UtcCarriers(call.results) # {} =>
               \E k \in MaxUtcCarriers(call.results) :
                   call.ret = ReadingOfEntry(call.results[k])
        /\ \A q \in PermutationsOf(call.results) : LatestOfResults(q) = call.ret

\* C15 amended: the query returns the first listed of the entries that carry the
\* greatest timestamp string (no reading if that entry has no value).  Permuting
\* the answer never changes a returned timestamp to another one, and never changes
\* the return when the entries carrying the greatest timestamp agree on what they
\* give; among entries that tie on it the provider's order decides.
C15_FirstOfMaxTimestamp ==
    IsLatestCall =>
        /\ UtcCarriers(call.results) # {} =>
               call.ret = ReadingOfEntry(call.results[FirstOf(MaxUtcCarriers(call.results))])
        /\ \A q \in PermutationsOf(call.results) :
               /\ LatestOfResults(q).dt \in
                      {None} \cup { call.results[k].utc : k \in MaxUtcCarriers(call.results) }
               /\ Cardinality({ ReadingOfEntry(call.results[k]) :
                                  k \in MaxUtcCarriers(call.results) }) <= 1
                      => LatestOfResults(q) = call.ret

\* Three entries listed oldest first, the newest listed second: the newest is returned.
C15_Witness ==
    /\ IsLatestCall
    /\ call.results = <<Entry(Some(20), Stale), Entry(Some(20), Fresh2),
                        Entry(Some(38), Fresh1)>>
    /\ call.ret = Reading(Some(20), Fresh2)

IsLookupCall == call.fn = "find_locations_by_coordinates"

\* The reported distance of a is at most that of b; a station that reports none
\* counts as farther than every station that reports one.
DistanceAtMost(a, b) ==
    b.distance = None \/ (a.distance # None /\ a.distance[1] <= b.distance[1])

PositionIn(s, x) == CHOOSE k \in 1..Len(s) : s[k] = x

\* C17: the station lookup returns the stations of the answer that list a PM2.5
\* sensor in non-decreasing order of reported distance, and two stations at the
\* same distance keep the order in which the provider listed them.
C17_SortedByDistanceStable ==
    IsLookupCall =>
        LET out == call.ret
            inp == call.locations
        IN /\ \A k \in 1..Len(out) : \E p \in 1..Len(inp) : inp[p] = out[k]
           /\ \A i, j \in 1..Len(out) :
                  i < j =>
                      /\ out[i] # out[j]
                      /\ DistanceAtMost(out[i], out[j])
                      /\ DistanceAtMost(out[j], out[i]) =>
                             PositionIn(inp, out[i]) < PositionIn(inp, out[j])
           /\ call.ok =>
                  \A p \in 1..Len(inp) :
                      (\E k \in 1..Len(out) : out[k] = inp[p])
                          <=> (\E n \in 1..Len(inp[p].sensors) :
                                   inp[p].sensors[n].parameter = "pm25")

\* The provider lists C, A (both at distance 2) and then B (distance 1): the lookup
\* returns B, C, A.
C17_Witness ==
    /\ IsLookupCall
    /\ call.ok
    /\ Len(call.locations) = 3
    /\ call.locations[1].name = "C"
    /\ call.locations[2].name = "A"
    /\ call.locations[3].name = "B"
    /\ Len(call.ret) = 3
    /\ call.ret[1].name = "B"
    /\ call.ret[2].name = "C"
    /\ call.ret[3].name = "A"

\* The id of the first sensor of a station whose parameter is PM2.5 is absent
\* (null) or 0.
FirstPm25IdUnusable(loc) ==
    \E n \in 1..Len(loc.sensors) :
        /\ loc.sensors[n].parameter = "pm25"
        /\ \A m \in 1..(n - 1) : loc.sensors[m].parameter # "pm25"
        /\ loc.sensors[n].id \in {None, Some(0)}

\* C18 as stated: resolving the PM2.5 sensor id of any station the lookup returned
\* yields an identifier, and the probe loop skips no station for lack of one.
C18_AsStated ==
    /\ \A k \in 1..Len(located) : ~Falsy(get_pm25_sensor_id_from_location(located[k]))
    /\ \A k \in Walked : probe_log[k].outcome # "skipped"

\* C18 amended: every station the lookup returned lists a sensor whose parameter is
\* PM2.5; the id of that sensor may be absent, and the probe loop skips exactly the
\* walked stations whose first PM2.5 sensor has no usable id.
C18_ReturnedStationsListPm25Sensor ==
    /\ \A k \in 1..Len(located) :
           \E n \in 1..Len(located[k].sensors) : located[k].sensors[n].parameter = "pm25"
    /\ \A k \in Walked :
           /\ k <= Len(located)
           /\ probe_log[k].name = located[k].name
           /\ probe_log[k].outcome = "skipped" <=> FirstPm25IdUnusable(located[k])

\* A returned station skipped by the probe loop after another station was queried.
C18_Witness ==
    /\ pc = "done"
    /\ Len(probe_log) >= 2
    /\ probe_log[1].outcome = "accumulated"
    /\ probe_log[Len(probe_log)].outcome = "skipped"

\* C19: a finished call has returned either a value with a timestamp and the label
\* of a provider and a station, or neither value nor timestamp and one of the
\* no-data or error labels; never one of value and timestamp without the other.
C19_ResultNeverPartial ==
    pc = "done" =>
        /\ result.value # None <=> result.dt_iso # None
        /\ result.value # None =>
               /\ result.source.kind \in {"OpenAQ", "WAQI"}
               /\ OutcomeOf(result) = "Resolved"
        /\ result.value = None =>
               /\ result.source.kind \in
                      {"No se encontraron estaciones", "Estaciones sin datos frescos",
                       "Error en la aplicacion", "WAQI sin datos PM2.5"}
               /\ result.source.name = ""
               /\ OutcomeOf(result) \in {"NoStations", "NoFreshData", "ProviderError", "NoData"}

\* A call ended without data after a station listed a newest entry that has a
\* timestamp and no value.
C19_Witness ==
    /\ pc = "done"
    /\ result.value = None
    /\ result.dt_iso = None
    /\ probe_log # <<>>
    /\ \A k \in Walked : probe_log[k].outcome = "no_reading"

\* The stations of the walk are the first of the list the lookup returned.
WalkIsPrefixOfLocated ==
    /\ Len(candidate_locations) <= Len(located)
    /\ \A k \in 1..Len(candidate_locations) : candidate_locations[k] = located[k]
    /\ \A i, j \in 1..Len(located) : i < j => DistanceAtMost(located[i], located[j])

\* C20: the lookup of a call is complete before its first station is walked, and
\* the stations are walked one per step, each in its turn in the distance order of
\* the list, a step being over before the next begins.
C20_SequentialInDistanceOrder ==
    /\ [](/\ WalkIsPrefixOfLocated
          /\ pc = "idle" => probe_log = <<>>
          /\ pc = "probe" => /\ Len(probe_log) = idx - 1
                             /\ idx <= Len(candidate_locations)
          /\ \A k \in Walked :
                 /\ k <= Len(candidate_locations)
                 /\ probe_log[k].name = candidate_locations[k].name)
    /\ [][/\ located' # located => pc \in {"idle", "done"} /\ probe_log' = <<>>
          /\ probe_log' # probe_log =>
                 \/ pc \in {"idle", "done"} /\ probe_log' = <<>>
                 \/ /\ pc = "probe"
                    /\ located' = located
                    /\ candidate_locations' = candidate_locations
                    /\ Len(probe_log') = Len(probe_log) + 1
                    /\ SubSeq(probe_log', 1, Len(probe_log)) = probe_log]_vars

\* Two stations walked in a call whose lookup returned three: the nearest first.
C20_Witness ==
    /\ pc = "done"
    /\ ~raised
    /\ Len(located) = 3
    /\ Len(probe_log) >= 2
    /\ probe_log[1].name = "B"
    /\ probe_log[2].name \in {"A", "C"}

----------------------------------------------------------------------------
(* Properties of a call as a whole *)

\* C21: in one call the locations endpoint is requested once, every walked station
\* is walked once (each query of a sensor is one step of the walk), and a step
\* that records an answer, a 429 or a failure included, leaves its station.
C21_NoRetries ==
    /\ [](/\ lookup_requests <= 1
          /\ pc # "idle" => lookup_requests = 1
          /\ Len(probe_log) <= Len(candidate_locations)
          /\ \A j, k \in Walked : j # k => probe_log[j].name # probe_log[k].name)
    /\ [][(pc = "probe" /\ probe_log' # probe_log) =>
              /\ Len(probe_log') = Len(probe_log) + 1
              /\ probe_log'[Len(probe_log')].name = candidate_locations[idx].name
              /\ pc' = "probe" => idx' = idx + 1
              /\ pc' # "probe" => pc' \in {"done", "fallback"}]_vars

\* The first station answered 429 and the walk went on to a second station.
C21_Witness ==
    /\ variant = "skyblue"
    /\ pc = "done"
    /\ Len(probe_log) = 2
    /\ probe_log[1].outcome = "rate_limited"
    /\ probe_log[2].name # probe_log[1].name

\* The walked stations whose reading skyblue.py accumulated, and those among them
\* whose timestamp string no other exceeds.
AccumulatedStations == { k \in Walked : probe_log[k].outcome = "accumulated" }
LatestStations ==
    { k \in AccumulatedStations :
        \A j \in AccumulatedStations :
            ~StrLess(probe_log[k].reading.dt, probe_log[j].reading.dt) }

\* The triple of a finished call of skyblue.py as a function of what the lookup
\* returned and of what the walked stations answered in this call.
OutcomeOfAnswers ==
    IF located = <<>>
    THEN Measurement(None, None, Label("No se encontraron estaciones", ""))
    ELSE IF \E k \in Walked : probe_log[k].outcome = "failed"
    THEN Measurement(None, None, Label("Error en la aplicacion", ""))
    ELSE IF AccumulatedStations = {}
    THEN Measurement(None, None, Label("Estaciones sin datos frescos", ""))
    ELSE LET k == FirstOf(LatestStations)
         IN Measurement(probe_log[k].reading.v, probe_log[k].reading.dt,
                        Label("OpenAQ", probe_log[k].name))

LogOfAnswers ==
    <<"search", IF lookup_failed THEN "lookup_error" ELSE "found">> \o
    (IF located = <<>> THEN <<"no_stations">>
     ELSE [k \in Walked |-> "step"] \o
          (IF raised THEN <<>>
           ELSE RateLimitNotice(RateLimitedCount >= 1) \o
                (IF AccumulatedStations = {} THEN <<"no_fresh">> ELSE <<"selected">>)))

NearestTenThousandth(x) ==
    CHOOSE r \in 0..(x + 1) : 10 * r - x < 5 /\ x - 10 * r < 5

\* The key of a search: latitude and longitude rounded to 4 decimals, the radius.
KeyOf(q) == <<NearestTenThousandth(q.lat), NearestTenThousandth(q.lon), q.radius>>

\* C26: once the page has gone through a search, last_query is the key of the
\* coordinates shown and last_result the triple of the most recent get_pm25 call,
\* which was made for that key; a rerun whose key equals last_query makes no call
\* and goes on with last_result, whatever outcome it holds.
C26_Memoization ==
    /\ [](/\ page = "shown" =>
                 /\ last_query = Some(KeyOf(coords_to_process[1]))
                 /\ shown = last_result
          /\ (last_query # None /\ pc # "probe" /\ ~(page = "run" /\ pc = "done"))
                 => last_result = result
          /\ (last_query = None) => pc = "idle" \/ page = "run")
    /\ [][/\ (last_query' # last_query \/ last_result' # last_result) =>
                 /\ page = "run" /\ pc = "done"
                 /\ last_query' = Some(KeyOf(coords_to_process[1]))
                 /\ last_result' = result
          /\ (page = "run" /\ pc = "idle"
                 /\ last_query = Some(KeyOf(coords_to_process[1]))) =>
                 /\ UNCHANGED get_pm25_state
                 /\ pc' = "idle"
                 /\ shown' = last_result
          /\ (pc = "idle" /\ pc' # "idle") =>
                 /\ last_query # Some(KeyOf(coords_to_process[1]))
                 /\ lookup_requests' = 1
          /\ page = "run" => coords_to_process' = coords_to_process]_vars

\* A rerun for another point with the same key went on with the stored error
\* outcome without a call.
C26_Witness ==
    /\ page = "shown"
    /\ pc = "idle"
    /\ last_query = Some(KeyOf(coords_to_process[1]))
    /\ coords_to_process[1].lat = 14
    /\ shown = last_result
    /\ OutcomeOf(shown) = "ProviderError"

----------------------------------------------------------------------------
(* Failures, ties and the edges of the helpers *)

IsTriple(r) == DOMAIN r = {"value", "dt_iso", "source"}

\* C25: get_pm25 never leaves through an exception: a call is at one of its steps
\* or has returned a triple, and after a lookup that failed, a station query that
\* raised or a secondary request that failed it goes on to a return with a triple
\* that carries no value or the secondary provider's.
C25_NeverPropagates ==
    /\ pc \in {"idle", "probe", "fallback", "done"}
    /\ IsTriple(result)
    /\ pc \in {"probe", "fallback"} => ENABLED <<Next>>_vars
    /\ (pc # "idle" /\ (lookup_failed \/ raised)) =>
           IF variant = "skyblue"
           THEN pc = "done" /\ result.value = None
                /\ OutcomeOf(result) \in {"NoStations", "ProviderError"}
           ELSE pc \in {"fallback", "done"} /\ (pc = "done" => FromWaqi)
    /\ waqi_failed =>
           pc = "done" /\ result = Measurement(None, None, Label("WAQI sin datos PM2.5", ""))

\* A station query raised, then the request to the secondary provider failed, and
\* the call returned its triple.
C25_Witness ==
    /\ variant = "skyblue2"
    /\ pc = "done"
    /\ raised
    /\ waqi_failed
    /\ result.value = None

\* C27: when the first listed of the entries with the greatest timestamp has no
\* value, the latest-reading query returns no reading, whatever values the older
\* entries of the answer carry.
C27_NoFallbackToOlderEntry ==
    (/\ IsLatestCall
     /\ MaxUtcCarriers(call.results) # {}
     /\ call.results[FirstOf(MaxUtcCarriers(call.results))].value = None)
        => call.ret = NoReading

\* An answer whose newest entry has no value and whose older entry has one.
C27_Witness ==
    /\ IsLatestCall
    /\ call.results = <<Entry(Some(38), Fresh1), Entry(None, Fresh2)>>
    /\ call.ret = NoReading

\* C28: when the loop completed with measurements accumulated and no secondary
\* request, get_pm25 returns the measurement of the first probed station among
\* those whose timestamp none exceeds, which is the nearest of them.
C28_TieGoesToNearest ==
    (pc = "done" /\ ~raised /\ AccumulatedStations # {} /\ waqi_queries = 0) =>
        LET k == FirstOf(LatestStations)
        IN /\ result = Measurement(probe_log[k].reading.v, probe_log[k].reading.dt,
                                   Label("OpenAQ", probe_log[k].name))
           /\ probe_log[k].name = located[k].name
           /\ \A j \in LatestStations :
                  k <= j /\ DistanceAtMost(located[k], located[j])

\* Two stations gave different values at the same latest instant; the nearer one
\* is returned.
C28_Witness ==
    /\ pc = "done"
    /\ ~raised
    /\ Cardinality(LatestStations) >= 2
    /\ \E i, j \in LatestStations :
           /\ i < j
           /\ probe_log[i].reading.v # probe_log[j].reading.v
           /\ result.value = probe_log[i].reading.v
           /\ result.source = Label("OpenAQ", probe_log[i].name)

\* C29: is_data_fresh accepts every well-formed timestamp after now, for every
\* max_age_days >= 0.
C29_FutureIsFresh ==
    (/\ IsFreshCall
     /\ call.dt_iso # None
     /\ WellFormed(call.dt_iso)
     /\ FromIso(call.dt_iso) > NowUtc
     /\ call.max_age_days >= 0)
        => call.ret = TRUE

\* A timestamp one day after now with max_age_days = 0.
C29_Witness ==
    /\ IsFreshCall
    /\ call.dt_iso = Iso(NowUtc + UnitsPerDay)
    /\ call.max_age_days = 0
    /\ call.ret = TRUE

IsWaqiCall == call.fn = "get_waqi_by_coordinates"

\* C30: get_waqi_by_coordinates returns at most one PM2.5 measurement; when the
\* request fails, the status is not ok, the data is absent or the AQI is '-', it
\* returns the empty list and the fallback reports no value.
C30_AtMostOneAndEmptyOnFailure ==
    IsWaqiCall =>
        /\ Cardinality({ k \in 1..Len(call.ret) : call.ret[k].parameter = "pm25" }) <= 1
        /\ (\/ ~call.answer.request_ok
            \/ call.answer.status # "ok"
            \/ ~call.answer.has_data
            \/ call.answer.aqi = "-") =>
               /\ call.ret = <<>>
               /\ call.fallback.value = None
               /\ call.fallback.dt_iso = None

\* A feed whose status is not ok although it carries data, a numeric AQI and a
\* PM2.5 entry: the adapter's list is empty and the fallback has no value.
C30_Witness ==
    /\ IsWaqiCall
    /\ call.answer.request_ok
    /\ call.answer.status = "error"
    /\ call.answer.has_data
    /\ call.answer.aqi = "50"
    /\ Len(call.answer.iaqi) = 3
    /\ call.ret = <<>>
    /\ call.fallback.value = None

====
